---------------------------- MODULE Spec2Model ----------------------------
(***************************************************************************)
(* A model of compare_vcf_performance.py: the sanitizer (sanitize_vcf),    *)
(* the loader (load_vcf_as_set, with its BED region list) and the          *)
(* comparison (compute_metrics and the per-chromosome loop of main).       *)
(*                                                                         *)
(* Python strings are sequences of one-character strings, so that          *)
(* upper-casing, prefix tests, line splitting and lexicographic order are  *)
(* computed, not assumed.  Python floats are modelled by exact rationals   *)
(* in lowest terms.  The text layer is the POSIX one (os.linesep = LF).    *)
(***************************************************************************)
EXTENDS Integers, Sequences, FiniteSets, TLC

VARIABLES
    pc,                \* position in the function being run
    err,               \* the exception that ended the run, or "none"
    restrict_regions,  \* load_vcf_as_set: None, or the BED file's lines (each split into fields)
    allowed,           \* load_vcf_as_set: None, or the list of regions loaded so far
    bedIdx,            \* load_vcf_as_set: index of the next BED line
    vcfRecords,        \* the records vcfpy's reader yields for the file
    recIdx,            \* load_vcf_as_set: index of the next record
    variants,          \* load_vcf_as_set: the set being built
    gzipped,           \* sanitize_vcf: path.endswith(".gz")
    srcText,           \* the characters of the input file (decompressed)
    tmpText,           \* the characters of the sanitized copy (decompressed)
    tmpFiles,          \* the temporary files that exist on disk
    clean_path,        \* the path sanitize_vcf returned, or None
    per_chrom,         \* main: args.per_chrom
    truth,             \* main: the truth Variant Set
    pred,              \* main: the prediction Variant Set
    global,            \* main: the global result of compute_metrics
    chromList,         \* main: sorted(chroms)
    perChrom           \* main: the per-chromosome rows emitted so far

vars == <<pc, err, restrict_regions, allowed, bedIdx, vcfRecords, recIdx, variants,
          gzipped, srcText, tmpText, tmpFiles, clean_path,
          per_chrom, truth, pred, global, chromList, perChrom>>

loadVars == <<restrict_regions, allowed, bedIdx, vcfRecords, recIdx, variants>>
fileVars == <<gzipped, srcText, tmpText, tmpFiles, clean_path>>
mainVars == <<per_chrom, truth, pred, global, chromList, perChrom>>

None == "None"
\* An optional list: None, or the list xs.
NoList == [some |-> FALSE, items |-> <<>>]
List(xs) == [some |-> TRUE, items |-> xs]
\* The value of main's result variables before line 89 has run.
NotComputed == [exc |-> "not computed"]

-----------------------------------------------------------------------------
(* Characters and strings                                                  *)

TAB == "\t"
LF == "\n"
CR == "\r"
SP == " "

\* The characters the model uses, in ascending code point order.
Ascii == <<TAB, LF, CR, SP, "#", "0", "1", "2", "3", "4", "5", "6", "7", "8", "9",
           "<", "=", ">",
           "A", "B", "C", "D", "E", "F", "G", "H", "I", "J", "K", "L", "M",
           "N", "O", "P", "Q", "R", "S", "T", "U", "V", "W", "X", "Y", "Z",
           "a", "b", "c", "d", "e", "f", "g", "h", "i", "j", "k", "l", "m",
           "n", "o", "p", "q", "r", "s", "t", "u", "v", "w", "x", "y", "z">>

Ord(c) == CHOOSE i \in 1..Len(Ascii) : Ascii[i] = c

OrdUpperA == Ord("A")
OrdLowerA == Ord("a")
OrdLowerZ == Ord("z")

\* str.upper() on one character
UpperChar(c) ==
    IF Ord(c) >= OrdLowerA /\ Ord(c) <= OrdLowerZ
    THEN Ascii[Ord(c) - OrdLowerA + OrdUpperA]
    ELSE c

\* str.upper()
Upper(s) == [i \in 1..Len(s) |-> UpperChar(s[i])]

\* str.__lt__: code point order, a proper prefix first
StrLess(a, b) ==
    \/ /\ Len(a) < Len(b)
       /\ \A i \in 1..Len(a) : a[i] = b[i]
    \/ \E i \in 1..Len(a) :
          /\ i <= Len(b)
          /\ \A j \in 1..(i - 1) : a[j] = b[j]
          /\ Ord(a[i]) < Ord(b[i])

\* str.startswith(prefix)
StartsWith(s, prefix) ==
    /\ Len(s) >= Len(prefix)
    /\ SubSeq(s, 1, Len(prefix)) = prefix

\* c in s
Contains(s, c) == \E i \in 1..Len(s) : s[i] = c

RECURSIVE Concat(_)
\* "".join(list)
Concat(ss) == IF ss = <<>> THEN <<>> ELSE Head(ss) \o Concat(Tail(ss))

-----------------------------------------------------------------------------
(* Numbers: a float is an exact rational in lowest terms; a division by    *)
(* zero raises ZeroDivisionError, modelled by the value DivError.          *)

RECURSIVE GCD(_, _)
GCD(a, b) == IF b = 0 THEN a ELSE GCD(b, a % b)

Rat(n, d) == LET g == GCD(n, d) IN [num |-> n \div g, den |-> d \div g]
IntNum(n) == [num |-> n, den |-> 1]
DivError == [num |-> 0, den |-> 0]
Raised(x) == x.den = 0

\* x / y
Div(x, y) ==
    IF Raised(x) \/ Raised(y) \/ y.num = 0 THEN DivError
    ELSE Rat(x.num * y.den, x.den * y.num)
\* x * y
Mul(x, y) ==
    IF Raised(x) \/ Raised(y) THEN DivError
    ELSE Rat(x.num * y.num, x.den * y.den)
\* x + y
Add(x, y) ==
    IF Raised(x) \/ Raised(y) THEN DivError
    ELSE Rat(x.num * y.den + y.num * x.den, x.den * y.den)
\* bool(x)
Truthy(x) == x.num # 0

-----------------------------------------------------------------------------
(* compute_metrics                                                         *)

\* A mutant of compute_metrics: every prediction counted as a false positive.
compute_metrics_fp_all(truth_, pred_) ==
    LET tp == Cardinality(truth_ \cap pred_)
        fp == Cardinality(pred_)
        fn == Cardinality(truth_ \ pred_)
        precision == IF tp + fp # 0 THEN Div(IntNum(tp), IntNum(tp + fp)) ELSE IntNum(0)
        recall == IF tp + fn # 0 THEN Div(IntNum(tp), IntNum(tp + fn)) ELSE IntNum(0)
        f1 == IF Truthy(Add(precision, recall))
              THEN Div(Mul(Mul(IntNum(2), precision), recall), Add(precision, recall))
              ELSE IntNum(0)
    IN  [tp |-> tp, fp |-> fp, fn |-> fn,
         precision |-> precision, recall |-> recall, f1 |-> f1,
         exc |-> IF Raised(precision) \/ Raised(recall) \/ Raised(f1)
                 THEN "ZeroDivisionError" ELSE "none"]

\* A mutant of compute_metrics: the guards of the three divisions dropped.
compute_metrics_unguarded(truth_, pred_) ==
    LET tp == Cardinality(truth_ \cap pred_)
        fp == Cardinality(pred_ \ truth_)
        fn == Cardinality(truth_ \ pred_)
        precision == Div(IntNum(tp), IntNum(tp + fp))
        recall == Div(IntNum(tp), IntNum(tp + fn))
        f1 == Div(Mul(Mul(IntNum(2), precision), recall), Add(precision, recall))
    IN  [tp |-> tp, fp |-> fp, fn |-> fn,
         precision |-> precision, recall |-> recall, f1 |-> f1,
         exc |-> IF Raised(precision) \/ Raised(recall) \/ Raised(f1)
                 THEN "ZeroDivisionError" ELSE "none"]

compute_metrics(truth_, pred_) ==
    LET tp == Cardinality(truth_ \cap pred_)
        fp == Cardinality(pred_ \ truth_)
        fn == Cardinality(truth_ \ pred_)
        precision == IF tp + fp # 0 THEN Div(IntNum(tp), IntNum(tp + fp)) ELSE IntNum(0)
        recall == IF tp + fn # 0 THEN Div(IntNum(tp), IntNum(tp + fn)) ELSE IntNum(0)
        f1 == IF Truthy(Add(precision, recall))
              THEN Div(Mul(Mul(IntNum(2), precision), recall), Add(precision, recall))
              ELSE IntNum(0)
    IN  [tp |-> tp, fp |-> fp, fn |-> fn,
         precision |-> precision, recall |-> recall, f1 |-> f1,
         exc |-> IF Raised(precision) \/ Raised(recall) \/ Raised(f1)
                 THEN "ZeroDivisionError" ELSE "none"]

-----------------------------------------------------------------------------
(* main: the global comparison and the per-chromosome loop                 *)

\* set([v[0] for v in truth] + [v[0] for v in pred])
Chroms(truth_, pred_) == {v[1] : v \in truth_} \cup {v[1] : v \in pred_}

\* A mutant of OnChrom: the set is not restricted.
OnChromAll(s, chrom) == s

\* {v for v in s if v[0] == chrom}
OnChrom(s, chrom) == {v \in s : v[1] = chrom}

RECURSIVE Unsorted(_)
\* A mutant of Sorted: the set's elements in descending order.
Unsorted(S) ==
    IF S = {} THEN <<>>
    ELSE LET m == CHOOSE x \in S : \A y \in S \ {x} : StrLess(x, y)
         IN  Unsorted(S \ {m}) \o <<m>>

RECURSIVE Sorted(_)
\* sorted(S) for a set of strings
Sorted(S) ==
    IF S = {} THEN <<>>
    ELSE LET m == CHOOSE x \in S : \A y \in S \ {x} : StrLess(x, y)
         IN  <<m>> \o Sorted(S \ {m})

\* main, lines 89-97: the global metrics.  With --per-chrom the loop follows.
ComputeGlobal ==
    /\ pc = "loaded"
    /\ global' = compute_metrics(truth, pred)
    /\ IF global'.exc # "none"
       THEN /\ pc' = "raised"
            /\ err' = global'.exc
            /\ UNCHANGED chromList
       ELSE /\ err' = err
            /\ IF per_chrom
               THEN /\ chromList' = Sorted(Chroms(truth, pred))
                    /\ pc' = "per_chrom"
               ELSE /\ UNCHANGED chromList
                    /\ pc' = "done"
    /\ UNCHANGED <<per_chrom, truth, pred, perChrom>>
    /\ UNCHANGED <<loadVars, fileVars>>

\* main, lines 134-140: one iteration of the loop over sorted(chroms).
PerChromStep ==
    /\ pc = "per_chrom"
    /\ Len(perChrom) < Len(chromList)
    /\ LET chrom == chromList[Len(perChrom) + 1]
           truth_c == OnChrom(truth, chrom)
           pred_c == OnChrom(pred, chrom)
           res == compute_metrics(truth_c, pred_c)
       IN  IF res.exc # "none"
           THEN /\ pc' = "raised"
                /\ err' = res.exc
                /\ UNCHANGED perChrom
           ELSE /\ perChrom' = Append(perChrom, [chrom |-> chrom, res |-> res])
                /\ UNCHANGED <<pc, err>>
    /\ UNCHANGED <<per_chrom, truth, pred, global, chromList>>
    /\ UNCHANGED <<loadVars, fileVars>>

\* main, line 151: the loop is exhausted.
PerChromEnd ==
    /\ pc = "per_chrom"
    /\ Len(perChrom) = Len(chromList)
    /\ pc' = "done"
    /\ UNCHANGED <<err, mainVars, loadVars, fileVars>>

-----------------------------------------------------------------------------
(* Inputs of the comparison                                                *)

chr1 == <<"c", "h", "r", "1">>
chr2 == <<"c", "h", "r", "2">>
chr10 == <<"c", "h", "r", "1", "0">>

\* The most keys a Variant Set of the comparison holds.
MaxVariants == 3

\* Canonical Variant Keys (CHROM, POS, REF, ALT): three chromosomes whose
\* lexicographic order is not their numeric order, and two keys that differ
\* in the alternate allele only.
KeySamples ==
    ({chr1, chr2, chr10} \X {1, 2} \X {<<"A">>} \X {<<"T">>})
        \cup {<<chr1, 1, <<"A">>, <<"C">>>>}

VariantSets == {S \in SUBSET KeySamples : Cardinality(S) <= MaxVariants}

\* The state main is in when both files are loaded (line 83).
InitMain ==
    /\ pc = "loaded"
    /\ err = "none"
    /\ truth \in VariantSets
    /\ pred \in VariantSets
    /\ per_chrom \in BOOLEAN
    /\ global = NotComputed
    /\ chromList = <<>>
    /\ perChrom = <<>>
    /\ restrict_regions = NoList
    /\ allowed = NoList
    /\ bedIdx = 0
    /\ vcfRecords = <<>>
    /\ recIdx = 0
    /\ variants = {}
    /\ gzipped = FALSE
    /\ srcText = <<>>
    /\ tmpText = <<>>
    /\ tmpFiles = {}
    /\ clean_path = None

NextMain == ComputeGlobal \/ PerChromStep \/ PerChromEnd

SpecMain == InitMain /\ [][NextMain]_vars

-----------------------------------------------------------------------------
(* Properties of the comparison (checked under SpecMain)                   *)

\* x is the rational n / d
IsQuotient(x, n, d) == x.den # 0 /\ d # 0 /\ x.num * d = n * x.den
IsZero(x) == x.den # 0 /\ x.num = 0
IsOne(x) == x.den # 0 /\ x.num = x.den

\* The counts of a result are those of the sets t (truth) and p (prediction).
CountsOf(res, t, p) ==
    /\ res.tp = Cardinality({k \in KeySamples : k \in t /\ k \in p})
    /\ res.fp = Cardinality({k \in KeySamples : k \in p /\ k \notin t})
    /\ res.fn = Cardinality({k \in KeySamples : k \in t /\ k \notin p})

\* The ratios of a result follow from its counts, with 0 for a zero denominator.
RatiosOf(res) ==
    /\ res.exc = "none"
    /\ IF res.tp + res.fp = 0 THEN IsZero(res.precision)
       ELSE IsQuotient(res.precision, res.tp, res.tp + res.fp)
    /\ IF res.tp + res.fn = 0 THEN IsZero(res.recall)
       ELSE IsQuotient(res.recall, res.tp, res.tp + res.fn)
    /\ IF res.tp = 0 THEN IsZero(res.f1)
       ELSE /\ IsQuotient(res.f1, 2 * res.tp, 2 * res.tp + res.fp + res.fn)
            \* f1 = 2 * precision * recall / (precision + recall)
            /\ res.f1.num * res.precision.den * res.recall.den
                   * (res.precision.num * res.recall.den
                        + res.recall.num * res.precision.den)
               = 2 * res.precision.num * res.recall.num * res.f1.den
                   * res.precision.den * res.recall.den

\* C1: compute_metrics(truth, pred) returns TP = |truth /\ pred|,
\* FP = |pred - truth| and FN = |truth - pred|; for truth = {k} and
\* pred = {k, k2} that is TP = 1, FP = 1, FN = 0, precision 1/2, recall 1,
\* f1 2/3.
C1_Counts ==
    global # NotComputed =>
        /\ CountsOf(global, truth, pred)
        /\ (Cardinality(truth) = 1 /\ Cardinality(pred) = 2 /\ truth \subseteq pred) =>
              /\ global.tp = 1 /\ global.fp = 1 /\ global.fn = 0
              /\ global.precision = [num |-> 1, den |-> 2]
              /\ global.recall = [num |-> 1, den |-> 1]
              /\ global.f1 = [num |-> 2, den |-> 3]

C1_Witness ==
    /\ global # NotComputed
    /\ Cardinality(truth) = 1 /\ Cardinality(pred) = 2 /\ truth \subseteq pred

\* C2: compute_metrics never raises; precision = TP/(TP+FP),
\* recall = TP/(TP+FN), f1 = 2*precision*recall/(precision+recall), each 0
\* when its denominator is 0; compute({}, {}) is all zeros and compute(A, A)
\* for non-empty A has precision = recall = f1 = 1.
C2_Total ==
    /\ err = "none"
    /\ pc # "raised"
    /\ global # NotComputed =>
        /\ RatiosOf(global)
        /\ (truth = {} /\ pred = {}) =>
              /\ global.tp = 0 /\ global.fp = 0 /\ global.fn = 0
              /\ IsZero(global.precision) /\ IsZero(global.recall) /\ IsZero(global.f1)
        /\ (truth = pred /\ truth # {}) =>
              /\ global.fp = 0 /\ global.fn = 0
              /\ IsOne(global.precision) /\ IsOne(global.recall) /\ IsOne(global.f1)
    /\ \A i \in 1..Len(perChrom) : RatiosOf(perChrom[i].res)

C2_Witness ==
    /\ global # NotComputed
    /\ truth = {}
    /\ pred = {}

\* C3: swapping the arguments of compute_metrics keeps TP and exchanges
\* FP and FN.
C3_Swap ==
    global # NotComputed =>
        LET swapped == compute_metrics(pred, truth)
        IN  /\ global.tp = swapped.tp
            /\ global.fp = swapped.fn
            /\ global.fn = swapped.fp

C3_Witness ==
    /\ global # NotComputed
    /\ global.fp # global.fn
    /\ global.tp > 0

\* Lexicographic order, by the first position at which two strings differ.
LexBefore(a, b) ==
    LET common == IF Len(a) < Len(b) THEN Len(a) ELSE Len(b)
        same(n) == \A j \in 1..n : a[j] = b[j]
    IN  IF same(common) THEN Len(a) < Len(b)
        ELSE LET i == CHOOSE n \in 1..common : a[n] # b[n] /\ same(n - 1)
             IN  Ord(a[i]) < Ord(b[i])

\* C8: the per-chromosome comparison emits exactly one row for each
\* chromosome of truth or pred, in ascending lexicographic order, each the
\* metrics of the two sets restricted to that chromosome; a chromosome of
\* the truth set alone has TP = 0, FP = 0, FN = its truth keys, precision 0
\* and recall 0.
C8_PerChrom ==
    (pc = "done" /\ per_chrom) =>
        /\ {perChrom[i].chrom : i \in 1..Len(perChrom)}
               = {k[1] : k \in truth \cup pred}
        /\ \A i, j \in 1..Len(perChrom) :
               i < j => LexBefore(perChrom[i].chrom, perChrom[j].chrom)
        /\ \A i \in 1..Len(perChrom) :
               LET c == perChrom[i].chrom
                   res == perChrom[i].res
                   t == {k \in truth : k[1] = c}
                   p == {k \in pred : k[1] = c}
               IN  /\ CountsOf(res, t, p)
                   /\ RatiosOf(res)
                   /\ p = {} =>
                         /\ res.tp = 0 /\ res.fp = 0 /\ res.fn = Cardinality(t)
                         /\ IsZero(res.precision) /\ IsZero(res.recall)

C8_Witness ==
    /\ pc = "done"
    /\ per_chrom
    /\ Len(perChrom) = 3
    /\ \E k \in truth : k[1] = chr2
    /\ \A k \in pred : k[1] = chr1

RECURSIVE SumOf(_, _)
\* The sum of field f of the results of a sequence of rows.
SumOf(rows, f) ==
    IF rows = <<>> THEN 0 ELSE Head(rows).res[f] + SumOf(Tail(rows), f)

\* C10: the per-chromosome counts add up to the global counts, and in every
\* result TP + FP is the size of the prediction set and TP + FN the size of
\* the truth set it was computed from.
C10_Partition ==
    /\ global # NotComputed =>
          /\ global.tp + global.fp = Cardinality(pred)
          /\ global.tp + global.fn = Cardinality(truth)
    /\ \A i \in 1..Len(perChrom) :
          LET c == perChrom[i].chrom
              res == perChrom[i].res
          IN  /\ res.tp + res.fp = Cardinality({k \in pred : k[1] = c})
              /\ res.tp + res.fn = Cardinality({k \in truth : k[1] = c})
    /\ (pc = "done" /\ per_chrom) =>
          /\ SumOf(perChrom, "tp") = global.tp
          /\ SumOf(perChrom, "fp") = global.fp
          /\ SumOf(perChrom, "fn") = global.fn

C10_Witness ==
    /\ pc = "done"
    /\ per_chrom
    /\ Len(perChrom) >= 2
    /\ global.tp > 0 /\ global.fp > 0 /\ global.fn > 0

-----------------------------------------------------------------------------
(* sanitize_vcf                                                            *)

RECURSIVE TranslateNewlines(_)
\* Reading in text mode (open(path, "r"), gzip.open(path, "rt")): universal
\* newlines, CR LF and a lone CR are both read as LF.
TranslateNewlines(text) ==
    IF text = <<>> THEN <<>>
    ELSE IF Head(text) = CR
         THEN IF Len(text) >= 2 /\ text[2] = LF
              THEN <<LF>> \o TranslateNewlines(SubSeq(text, 3, Len(text)))
              ELSE <<LF>> \o TranslateNewlines(Tail(text))
         ELSE <<Head(text)>> \o TranslateNewlines(Tail(text))

RECURSIVE SplitLines(_)
\* The lines of a text, each with its LF; the last one may have none.
SplitLines(text) ==
    IF text = <<>> THEN <<>>
    ELSE IF Contains(text, LF)
         THEN LET i == CHOOSE n \in 1..Len(text) :
                           text[n] = LF /\ \A m \in 1..(n - 1) : text[m] # LF
              IN  <<SubSeq(text, 1, i)>> \o SplitLines(SubSeq(text, i + 1, Len(text)))
         ELSE <<text>>

\* for line in f_in
ReadLines(text) == SplitLines(TranslateNewlines(text))

FileDateKey == <<"#", "#", "f", "i", "l", "e", "D", "a", "t", "e">>
FixedLine == FileDateKey \o <<"=", "u", "n", "k", "n", "o", "w", "n", LF>>

\* line.startswith("##fileDate") and "=" not in line
Malformed(line) == StartsWith(line, FileDateKey) /\ ~Contains(line, "=")

\* Lines 220-223: what is written for one line read.
SanitizeLine(line) == IF Malformed(line) THEN FixedLine ELSE line

\* Lines 217-223: the text written to tmp for the text read.
SanitizedText(text) ==
    LET lines == ReadLines(text)
    IN  Concat([i \in 1..Len(lines) |-> SanitizeLine(lines[i])])

tmp_path == "tmp"
gz_path == "tmp.gz"

\* sanitize_vcf returns: the copy is written; for gzip input it is
\* recompressed to gz_path and the uncompressed temporary removed.
SanitizeVcf ==
    /\ pc = "sanitize"
    /\ tmpText' = SanitizedText(srcText)
    /\ tmpFiles' = IF gzipped
                   THEN ((tmpFiles \cup {tmp_path}) \cup {gz_path}) \ {tmp_path}
                   ELSE tmpFiles \cup {tmp_path}
    /\ clean_path' = IF gzipped THEN gz_path ELSE tmp_path
    /\ pc' = "reader"
    /\ UNCHANGED <<err, gzipped, srcText, loadVars, mainVars>>

\* sanitize_vcf raises: the input cannot be opened or read (line 217), after
\* the temporary file was created (line 214).
SanitizeRaises ==
    /\ pc = "sanitize"
    /\ tmpFiles' = tmpFiles \cup {tmp_path}
    /\ err' = "OSError"
    /\ pc' = "raised"
    /\ UNCHANGED <<gzipped, srcText, tmpText, clean_path, loadVars, mainVars>>

\* The most lines an input text of the sanitizer holds.
MaxLines == 2

LineBodies ==
    {<<>>, <<"c">>, <<"#", "=">>, FileDateKey, FileDateKey \o <<"X">>,
     FileDateKey \o <<"=", "1">>}
Terminators == {<<LF>>, <<CR, LF>>, <<CR>>}
TerminatedLines == {b \o t : b \in LineBodies, t \in Terminators}

RECURSIVE TextsOfLines(_)
\* The texts of exactly n terminated lines.
TextsOfLines(n) ==
    IF n = 0 THEN {<<>>}
    ELSE {t \o l : t \in TextsOfLines(n - 1), l \in TerminatedLines}

\* The texts of up to MaxLines lines, the last one terminated or not.
Texts ==
    UNION {{t \o l : t \in TextsOfLines(n), l \in TerminatedLines \cup LineBodies}
              : n \in 0..(MaxLines - 1)}

\* sanitize_vcf called on a file.
InitSanitize ==
    /\ pc = "sanitize"
    /\ err = "none"
    /\ srcText \in Texts
    /\ gzipped \in BOOLEAN
    /\ tmpText = <<>>
    /\ tmpFiles = {}
    /\ clean_path = None
    /\ restrict_regions = NoList
    /\ allowed = NoList
    /\ bedIdx = 0
    /\ vcfRecords = <<>>
    /\ recIdx = 0
    /\ variants = {}
    /\ per_chrom = FALSE
    /\ truth = {}
    /\ pred = {}
    /\ global = NotComputed
    /\ chromList = <<>>
    /\ perChrom = <<>>

NextSanitize == SanitizeVcf \/ SanitizeRaises

SpecSanitize == InitSanitize /\ [][NextSanitize]_vars

\* The lines of the copy are those of the input, the malformed ones replaced.
LinesPreserved ==
    LET inLines == SplitLines(srcText)
        outLines == SplitLines(tmpText)
    IN  /\ Len(outLines) = Len(inLines)
        /\ \A i \in 1..Len(inLines) :
               outLines[i] = IF Malformed(inLines[i]) THEN FixedLine ELSE inLines[i]
        /\ (\A i \in 1..Len(inLines) : ~Malformed(inLines[i])) => tmpText = srcText

\* C6: sanitize_vcf writes the input's lines in the same order and number,
\* each line that begins with ##fileDate and has no "=" replaced by
\* ##fileDate=unknown and every other line unchanged; so a file with no such
\* line is copied identically.
C6_LinesPreserved == (pc = "reader") => LinesPreserved

\* The statement of C6 restricted to the inputs whose only line terminator
\* is LF: it holds of those.
SanitizeLinesPreservedLF == (pc = "reader" /\ ~Contains(srcText, CR)) => LinesPreserved

-----------------------------------------------------------------------------
(* load_vcf_as_set                                                         *)

Whitespace == {TAB, LF, CR, SP}

\* bool(line.strip())
StripTruthy(line) == \E i \in 1..Len(line) : line[i] \notin Whitespace

RECURSIVE Split(_)
\* line.split(): the maximal runs of characters that are not whitespace
Split(s) ==
    IF s = <<>> THEN <<>>
    ELSE IF Head(s) \in Whitespace THEN Split(Tail(s))
    ELSE LET n == CHOOSE k \in 1..Len(s) :
                      /\ \A j \in 1..k : s[j] \notin Whitespace
                      /\ k = Len(s) \/ s[k + 1] \in Whitespace
         IN  <<SubSeq(s, 1, n)>> \o Split(SubSeq(s, n + 1, Len(s)))

IsDigit(c) == Ord(c) >= Ord("0") /\ Ord(c) <= Ord("9")

\* int(s) does not raise ValueError (decimal digits; signs are not modelled)
IsIntLiteral(s) == Len(s) > 0 /\ \A i \in 1..Len(s) : IsDigit(s[i])

RECURSIVE IntOf(_)
\* int(s)
IntOf(s) ==
    IF s = <<>> THEN 0
    ELSE IntOf(SubSeq(s, 1, Len(s) - 1)) * 10 + (Ord(s[Len(s)]) - Ord("0"))

\* bool(allowed): None and the empty list are both false
ListTruthy(l) == l.some /\ l.items # <<>>

\* any(chrom == r[0] and r[1] <= pos <= r[2] for r in allowed)
InRegion(regions, chrom, pos) ==
    \E i \in 1..Len(regions) :
        chrom = regions[i][1] /\ regions[i][2] <= pos /\ pos <= regions[i][3]

\* A mutant of RecordKeys: only the first qualifying alternate is kept.
RecordKeysFirstAlt(rec) ==
    LET q == {j \in 1..Len(rec.ALT) : rec.ALT[j].type \in {"SNV", "INDEL"}}
    IN  {<<rec.CHROM, rec.POS, Upper(rec.REF), Upper(rec.ALT[j].value)>> :
            j \in {i \in q : \A k \in q : i <= k}}

\* Lines 195-201: the keys one record adds.
RecordKeys(rec) ==
    {<<rec.CHROM, rec.POS, Upper(rec.REF), Upper(rec.ALT[j].value)>> :
        j \in {i \in 1..Len(rec.ALT) :
                  ~(rec.ALT[i].type # "SNV" /\ rec.ALT[i].type # "INDEL")}}

\* Lines 171-176: with a BED path the file is opened, otherwise the
\* sanitizer is next.
LoadStart ==
    /\ pc = "start"
    /\ variants' = {}
    /\ IF restrict_regions.some
       THEN /\ allowed' = List(<<>>)
            /\ bedIdx' = 1
            /\ pc' = "bed"
       ELSE /\ allowed' = NoList
            /\ UNCHANGED bedIdx
            /\ pc' = "sanitize"
    /\ UNCHANGED <<err, restrict_regions, vcfRecords, recIdx, fileVars, mainVars>>

\* Line 177: the BED file cannot be opened.
BedOpenRaises ==
    /\ pc = "start"
    /\ restrict_regions.some
    /\ err' = "OSError"
    /\ pc' = "raised"
    /\ UNCHANGED <<loadVars, fileVars, mainVars>>

\* Lines 178-181: one line of the BED file.
BedLine ==
    /\ pc = "bed"
    /\ bedIdx <= Len(restrict_regions.items)
    /\ LET line == restrict_regions.items[bedIdx]
           fields == Split(line)
       IN  IF ~StripTruthy(line)
           THEN /\ bedIdx' = bedIdx + 1
                /\ UNCHANGED <<allowed, pc, err>>
           ELSE IF \/ Len(fields) < 3
                   \/ ~IsIntLiteral(fields[2])
                   \/ ~IsIntLiteral(fields[3])
                THEN /\ err' = "ValueError"
                     /\ pc' = "raised"
                     /\ UNCHANGED <<allowed, bedIdx>>
                ELSE /\ allowed' = List(Append(allowed.items,
                                       <<fields[1], IntOf(fields[2]), IntOf(fields[3])>>))
                     /\ bedIdx' = bedIdx + 1
                     /\ UNCHANGED <<pc, err>>
    /\ UNCHANGED <<restrict_regions, vcfRecords, recIdx, variants, fileVars, mainVars>>

\* Line 183: the BED file is exhausted.
BedEnd ==
    /\ pc = "bed"
    /\ bedIdx > Len(restrict_regions.items)
    /\ pc' = "sanitize"
    /\ UNCHANGED <<err, loadVars, fileVars, mainVars>>

\* Line 184: vcfpy opens the sanitized copy and parses its header.
ReaderOpen ==
    /\ pc = "reader"
    /\ recIdx' = 1
    /\ pc' = "loop"
    /\ UNCHANGED <<err, restrict_regions, allowed, bedIdx, vcfRecords, variants,
                   fileVars, mainVars>>

\* Lines 184, 186: vcfpy rejects the header or the next record.
ReaderRaises ==
    /\ pc \in {"reader", "loop"}
    /\ err' = "ParseError"
    /\ pc' = "raised"
    /\ UNCHANGED <<loadVars, fileVars, mainVars>>

\* Lines 186-201: one record of the reader.
ReadRecord ==
    /\ pc = "loop"
    /\ recIdx <= Len(vcfRecords)
    /\ LET rec == vcfRecords[recIdx]
           pos == rec.POS
           chrom == rec.CHROM
       IN  IF ListTruthy(allowed) /\ ~InRegion(allowed.items, chrom, pos)
           THEN UNCHANGED variants
           ELSE variants' = variants \cup RecordKeys(rec)
    /\ recIdx' = recIdx + 1
    /\ UNCHANGED <<pc, err, restrict_regions, allowed, bedIdx, vcfRecords,
                   fileVars, mainVars>>

\* Line 203: the reader is exhausted and the set is returned.
LoadReturn ==
    /\ pc = "loop"
    /\ recIdx > Len(vcfRecords)
    /\ pc' = "returned"
    /\ UNCHANGED <<err, loadVars, fileVars, mainVars>>

NextLoad ==
    \/ LoadStart
    \/ BedOpenRaises
    \/ BedLine
    \/ BedEnd
    \/ SanitizeVcf
    \/ SanitizeRaises
    \/ ReaderOpen
    \/ ReaderRaises
    \/ ReadRecord
    \/ LoadReturn

-----------------------------------------------------------------------------
(* Inputs of load_vcf_as_set                                               *)

\* The most records the reader yields, and the most lines of a BED file.
MaxRecords == 2
MaxBedLines == 2

RECURSIVE SeqsUpTo(_, _)
\* The sequences of at most n elements of S.
SeqsUpTo(S, n) ==
    IF n = 0 THEN {<<>>}
    ELSE LET shorter == SeqsUpTo(S, n - 1)
         IN  shorter \cup {Append(q, x) : q \in shorter, x \in S}

Alt(type, value) == [type |-> type, value |-> value]

\* The ALT columns: none, one SNV, the two SNVs of a multi-allelic record, a
\* symbolic allele followed by an INDEL, and one allele of another type.
AltLists ==
    {<<>>,
     <<Alt("SNV", <<"t">>)>>,
     <<Alt("SNV", <<"T">>), Alt("SNV", <<"C">>)>>,
     <<Alt("SYMBOLIC", <<"<", "D", "E", "L", ">">>), Alt("INDEL", <<"a", "t">>)>>,
     <<Alt("MNV", <<"t", "t">>)>>}

Record(chrom, pos, ref, alt) == [CHROM |-> chrom, POS |-> pos, REF |-> ref, ALT |-> alt]

RecordSamples ==
    {Record(c, 100, r, a) : c \in {chr1, chr2}, r \in {<<"a">>, <<"A">>}, a \in AltLists}

\* One SNV at each position around the regions of the BED samples, and one
\* multi-allelic record.
ProbeRecords ==
    {Record(c, p, <<"a">>, <<Alt("SNV", <<"t">>)>>) : c \in {chr1, chr2}, p \in {1, 2, 3}}
        \cup {Record(chr1, 2, <<"a">>, <<Alt("SNV", <<"T">>), Alt("MNV", <<"t", "t">>)>>)}

BedBlank == <<LF>>
BedSpaces == <<SP, TAB, LF>>
BedComment == <<"#", "h", "d", "r", LF>>
BedCommentFields == <<"#", SP, "1", SP, "2", LF>>
BedRegion1 == chr1 \o <<SP, "2", SP, "2", LF>>
BedRegion2 == chr2 \o <<TAB, "1", TAB, "2", TAB, "n", LF>>
BedRegion100 == chr1 \o <<TAB, "1", "0", "0", TAB, "1", "0", "0", LF>>

BedLineSamples ==
    {BedBlank, BedSpaces, BedComment, BedCommentFields, BedRegion1, BedRegion2}

\* A header with the malformed line; the records vcfpy parses from the file
\* are an input of their own (vcfRecords), vcfpy being outside this program.
HeaderSample == FileDateKey \o <<LF>>

InitLoadWith(beds, records) ==
    /\ pc = "start"
    /\ err = "none"
    /\ restrict_regions \in beds
    /\ allowed = NoList
    /\ bedIdx = 0
    /\ vcfRecords \in records
    /\ recIdx = 0
    /\ variants = {}
    /\ gzipped \in BOOLEAN
    /\ srcText = HeaderSample
    /\ tmpText = <<>>
    /\ tmpFiles = {}
    /\ clean_path = None
    /\ per_chrom = FALSE
    /\ truth = {}
    /\ pred = {}
    /\ global = NotComputed
    /\ chromList = <<>>
    /\ perChrom = <<>>

\* load_vcf_as_set on a file of up to MaxRecords records, without a BED
\* file or with one of three.
Init ==
    InitLoadWith({NoList, List(<<BedBlank, BedRegion100>>), List(<<BedComment>>)},
                 SeqsUpTo(RecordSamples, MaxRecords))

Spec == Init /\ [][NextLoad]_vars

\* load_vcf_as_set with every BED file of up to MaxBedLines lines.
InitBed ==
    InitLoadWith({NoList} \cup {List(f) : f \in SeqsUpTo(BedLineSamples, MaxBedLines)},
                 SeqsUpTo(ProbeRecords, MaxRecords))

SpecBed == InitBed /\ [][NextLoad]_vars

-----------------------------------------------------------------------------
(* Properties of load_vcf_as_set                                           *)

\* The keys a record stands for: one per alternate of type SNV or INDEL.
KeysOf(rec) ==
    {<<rec.CHROM, rec.POS, Upper(rec.REF), Upper(rec.ALT[j].value)>> :
        j \in {i \in 1..Len(rec.ALT) : rec.ALT[i].type \in {"SNV", "INDEL"}}}

\* Some region of the list holds the position, both bounds included.
Inside(regions, chrom, pos) ==
    \E i \in 1..Len(regions) :
        /\ regions[i][1] = chrom
        /\ regions[i][2] <= pos
        /\ pos <= regions[i][3]

\* The keys of the records read so far that lie inside the loaded regions.
FilteredKeys ==
    UNION {KeysOf(vcfRecords[i]) :
              i \in {n \in 1..(recIdx - 1) :
                        Inside(allowed.items, vcfRecords[n].CHROM, vcfRecords[n].POS)}}

\* C4: with a region list configured, whatever number of regions it loads,
\* the returned set holds exactly the keys of the records whose position
\* lies in some loaded region, bounds included.
C4_RegionFilter ==
    (restrict_regions.some /\ pc = "returned") => variants = FilteredKeys

\* The statement of C4 for the region lists that load at least one region:
\* it holds of those.
RegionFilterNonEmpty ==
    (restrict_regions.some /\ pc = "returned" /\ allowed.items # <<>>)
        => variants = FilteredKeys

\* C5: with no region filter the returned set is exactly the keys
\* (chrom, pos, upper(REF), upper(ALT)) of the alternates of type SNV or
\* INDEL: one key per qualifying alternate of a multi-allelic record, other
\* types skipped, equal keys collapsed, nothing and no error for a record
\* without qualifying alternates.
C5_Unfiltered ==
    ~restrict_regions.some =>
        /\ err \in {"none", "OSError", "ParseError"}
        /\ pc \in {"loop", "returned"} =>
              /\ variants = UNION {KeysOf(vcfRecords[i]) : i \in 1..(recIdx - 1)}
              /\ \A i \in 1..(recIdx - 1) :
                    LET rec == vcfRecords[i]
                    IN  (rec.CHROM = chr1 /\ rec.REF = <<"A">> /\ Len(rec.ALT) = 2
                            /\ rec.ALT[1] = Alt("SNV", <<"T">>)
                            /\ rec.ALT[2] = Alt("SNV", <<"C">>))
                        => /\ <<chr1, 100, <<"A">>, <<"T">>>> \in variants
                           /\ <<chr1, 100, <<"A">>, <<"C">>>> \in variants

C5_Witness ==
    /\ ~restrict_regions.some
    /\ pc = "returned"
    /\ Len(vcfRecords) = 2
    /\ vcfRecords[1] = Record(chr1, 100, <<"A">>, <<Alt("SNV", <<"T">>), Alt("SNV", <<"C">>)>>)
    /\ vcfRecords[2] = Record(chr1, 100, <<"a">>, <<Alt("SNV", <<"t">>)>>)
    /\ Cardinality(variants) = 2

\* C7: once the call is over, by return or by a parse failure of the reader,
\* the sanitized temporary file no longer exists, and for gzip input the
\* uncompressed intermediate is gone too.
C7_TempFileDeleted ==
    (pc = "returned" \/ (pc = "raised" /\ err = "ParseError")) =>
        /\ clean_path \notin tmpFiles
        /\ gzipped => tmp_path \notin tmpFiles

\* What does hold of the temporary files: the copy sanitize_vcf returned
\* exists from then on, and it is the only one.
TempFileKept ==
    (pc \in {"reader", "loop", "returned"} \/ (pc = "raised" /\ err = "ParseError"))
        => tmpFiles = {clean_path}

\* The first character of the line that is not whitespace is "#".
IsComment(line) ==
    \E i \in 1..Len(line) :
        /\ line[i] = "#"
        /\ \A j \in 1..(i - 1) : line[j] \in Whitespace

\* The (chrom, start, end) triples of the lines that are neither blank nor
\* comments.
ExpectedRegions(lines) ==
    LET kept == SelectSeq(lines, LAMBDA l : StripTruthy(l) /\ ~IsComment(l))
    IN  [i \in 1..Len(kept) |->
            LET f == Split(kept[i]) IN <<f[1], IntOf(f[2]), IntOf(f[3])>>]

BedLoaded == pc \in {"sanitize", "reader", "loop", "returned"}

\* C9: loading the region file ignores comment lines and blank lines: they
\* add no region and cause no error, and the loaded regions are exactly the
\* triples of the remaining lines.
C9_BedCommentsIgnored ==
    restrict_regions.some =>
        /\ err # "ValueError"
        /\ BedLoaded => allowed.items = ExpectedRegions(restrict_regions.items)

\* The statement of C9 for the region files without comment lines: blank
\* lines are ignored.
BedBlankLinesIgnored ==
    (restrict_regions.some
        /\ \A i \in 1..Len(restrict_regions.items) : ~IsComment(restrict_regions.items[i]))
    =>  /\ err # "ValueError"
        /\ BedLoaded => allowed.items = ExpectedRegions(restrict_regions.items)

=============================================================================
